---- MODULE Spec2Model ----
(***************************************************************************)
(* Model of analyzer/detector.py and analyzer/baseline_collector.py.       *)
(*                                                                         *)
(* A Python string is a sequence of character codes (naturals); sorted()   *)
(* on strings is the lexicographic order of those sequences.  A JSON       *)
(* document / Python dict is a TLA+ record, and dict.get(k, d) is Get.     *)
(***************************************************************************)
EXTENDS Integers, Sequences, FiniteSets, TLC

VARIABLES
    host,          \* what the collectors read: files, directories, command outputs
    faults,        \* which external calls fail in this run, and how
    baselineFile,  \* baseline/baseline_state.json: [exists, doc]
    pcB,           \* position of baseline_collector.py
    bl,            \* baseline_collector.py: the dict `baseline`
    bIdx,          \* baseline_collector.py: index of the loop in progress
    suid_files,    \* baseline_collector.py: the list `suid_files`
    pcD,           \* position of detector.py main()
    baseline,      \* main(): the loaded baseline dict
    current,       \* main(): collect_current_state()
    alerts,        \* main(): the list `alerts`
    diff,          \* main(): added_* / removed_* locals
    cronIdx,       \* main(): index in the cron_dir loop
    cronLocal,     \* main(): the locals `added, removed` of the cron_dir loop
    jsonReport,    \* reports/detection_report_<ts>.json: [written, obj]
    txtReport,     \* reports/detection_report_<ts>.txt: [written, lines]
    stdout,        \* what main() printed
    exitCode,      \* exit status of the detection run (-1 while running)
    args,          \* arguments of a direct diff_lists call
    ret            \* results of the direct diff_lists calls

vars == <<host, faults, baselineFile, pcB, bl, bIdx, suid_files, pcD, baseline,
          current, alerts, diff, cronIdx, cronLocal, jsonReport, txtReport,
          stdout, exitCode, args, ret>>

(***************************************************************************)
(* Bounds of the model.                                                    *)
(***************************************************************************)
MaxListLen == 3      \* length of the lists handed to diff_lists directly
MaxLines == 2        \* lines of /etc/passwd
MaxFaults == 1       \* failing external calls per run
MaxExtra == 2        \* how far a long list may exceed the truncation limit

(***************************************************************************)
(* Python built-ins.                                                       *)
(***************************************************************************)
Range(s) == {s[i] : i \in DOMAIN s}

SeqsUpTo(S, n) == UNION {[1..k -> S] : k \in 0..n}

\* str < str: lexicographic on character codes
RECURSIVE StrLess(_, _)
StrLess(a, b) ==
    IF a = <<>> THEN b # <<>>
    ELSE IF b = <<>> THEN FALSE
    ELSE IF Head(a) # Head(b) THEN Head(a) < Head(b)
    ELSE StrLess(Tail(a), Tail(b))

\* sorted(S) for a set of strings
RECURSIVE sorted(_)
sorted(S) ==
    IF S = {} THEN <<>>
    ELSE LET m == CHOOSE x \in S : \A y \in S \ {x} : StrLess(x, y)
         IN <<m>> \o sorted(S \ {m})

\* sorted(l) for a list of strings (duplicates kept)
RECURSIVE sortedList(_)
sortedList(l) ==
    IF l = <<>> THEN <<>>
    ELSE LET i == CHOOSE j \in DOMAIN l :
                      \A k \in DOMAIN l : l[k] = l[j] \/ StrLess(l[j], l[k])
         IN <<l[i]>> \o sortedList([k \in 1..(Len(l) - 1) |->
                                        IF k < i THEN l[k] ELSE l[k + 1]])

\* l[:n]
Take(l, n) == IF Len(l) <= n THEN l ELSE SubSeq(l, 1, n)

\* d.get(k, default)
Get(d, k, default) == IF k \in DOMAIN d THEN d[k] ELSE default

\* The line separator character of str.splitlines()
NL == 10

\* s.splitlines(): cut at every separator; a trailing separator opens no line
RECURSIVE splitlinesFrom(_, _)
splitlinesFrom(s, cur) ==
    IF s = <<>> THEN (IF cur = <<>> THEN <<>> ELSE <<cur>>)
    ELSE IF Head(s) = NL THEN <<cur>> \o splitlinesFrom(Tail(s), <<>>)
    ELSE splitlinesFrom(Tail(s), Append(cur, Head(s)))

splitlines(s) == splitlinesFrom(s, <<>>)

\* s.strip(), the only whitespace of the model being the line separator
RECURSIVE lstrip(_)
lstrip(s) == IF s # <<>> /\ Head(s) = NL THEN lstrip(Tail(s)) ELSE s

RECURSIVE rstrip(_)
rstrip(s) == IF s # <<>> /\ s[Len(s)] = NL THEN rstrip(SubSeq(s, 1, Len(s) - 1)) ELSE s

strip(s) == rstrip(lstrip(s))

(***************************************************************************)
(* detector.py: diff_lists                                                 *)
(***************************************************************************)
\* A list argument that may be None
PyNone == [none |-> TRUE, items |-> <<>>]
PyList(l) == [none |-> FALSE, items |-> l]

\* `x or []`
orEmpty(x) == IF x.none \/ x.items = <<>> THEN <<>> ELSE x.items

diff_lists_removed_all(old_list, new_list) ==
    LET old_set == Range(orEmpty(old_list))
        new_set == Range(orEmpty(new_list))
    IN [added |-> sorted(new_set \ old_set), removed |-> sorted(old_set)]

diff_lists_keep_dups(old_list, new_list) ==
    LET old_set == Range(orEmpty(old_list))
        new_set == Range(orEmpty(new_list))
    IN [added |-> sortedList(SelectSeq(orEmpty(new_list), LAMBDA x : x \notin old_set)),
        removed |-> sortedList(SelectSeq(orEmpty(old_list), LAMBDA x : x \notin new_set))]

diff_lists(old_list, new_list) ==
    LET old_set == Range(orEmpty(old_list))
        new_set == Range(orEmpty(new_list))
    IN [added |-> sorted(new_set \ old_set), removed |-> sorted(old_set \ new_set)]

(***************************************************************************)
(* More string built-ins: split, int, join.                                *)
(***************************************************************************)
Colon == 58
Hash == 35
Slash == 47
Digit0 == 48
Digit9 == 57

\* s.split(sep): a trailing or doubled separator yields an empty field
RECURSIVE splitFrom(_, _, _)
splitFrom(s, sep, cur) ==
    IF s = <<>> THEN <<cur>>
    ELSE IF Head(s) = sep THEN <<cur>> \o splitFrom(Tail(s), sep, <<>>)
    ELSE splitFrom(Tail(s), sep, Append(cur, Head(s)))

split(s, sep) == splitFrom(s, sep, <<>>)

\* int(s) succeeds (decimal digits; sign, blanks and underscores are outside the model)
IsInt(s) == s # <<>> /\ \A i \in DOMAIN s : s[i] >= Digit0 /\ s[i] <= Digit9

RECURSIVE int(_)
int(s) == IF s = <<>> THEN 0
          ELSE 10 * int(SubSeq(s, 1, Len(s) - 1)) + (s[Len(s)] - Digit0)

\* "\n".join(l)
RECURSIVE join(_)
join(l) == IF l = <<>> THEN <<>>
           ELSE IF Len(l) = 1 THEN l[1]
           ELSE l[1] \o <<NL>> \o join(Tail(l))

(***************************************************************************)
(* The host as the collectors see it.                                      *)
(*   host.now    the clock                                                 *)
(*   host.files  path -> content                                           *)
(*   host.dirs   path -> entries in enumeration order,                     *)
(*               each [name, is_file, content]                             *)
(*   host.cmds   command -> stdout                                         *)
(* faults[site] is "ok", "error" (missing, permission denied, non-zero     *)
(* exit, command not found) or "timeout" (subprocess.TimeoutExpired).      *)
(***************************************************************************)
suid_dirs == <<"/bin", "/sbin", "/usr/bin", "/usr/sbin">>

cron_paths == <<"/etc/cron.d", "/etc/cron.daily", "/etc/cron.hourly",
                "/etc/cron.weekly", "/etc/cron.monthly">>

system_dirs == <<"/etc/systemd/system", "/lib/systemd/system">>

key_paths == <<"/root/.ssh/authorized_keys", "~/.ssh/authorized_keys">>

Files == {"/etc/passwd", "/etc/sudoers", "/etc/crontab"} \cup Range(key_paths)
Dirs == {"/etc/sudoers.d"} \cup Range(cron_paths) \cup Range(system_dirs)
FindCmd(d) == "find " \o d
Cmds == {FindCmd(suid_dirs[i]) : i \in DOMAIN suid_dirs}
           \cup {"systemctl list-unit-files", "sudo crontab -l", "crontab -l"}
Sites == Files \cup Dirs \cup Cmds

\* The characters of a directory's path (one letter stands for each directory)
DirStr(d) ==
    CASE d = "/etc/sudoers.d" -> <<Slash, 115>>
      [] d = "/etc/cron.d" -> <<Slash, 100>>
      [] d = "/etc/cron.daily" -> <<Slash, 97>>
      [] d = "/etc/cron.hourly" -> <<Slash, 104>>
      [] d = "/etc/cron.weekly" -> <<Slash, 119>>
      [] d = "/etc/cron.monthly" -> <<Slash, 109>>
      [] d = "/etc/systemd/system" -> <<Slash, 101>>
      [] d = "/lib/systemd/system" -> <<Slash, 108>>
      [] d = "/bin" -> <<Slash, 98>>
      [] d = "/sbin" -> <<Slash, 99>>
      [] d = "/usr/bin" -> <<Slash, 117>>
      [] d = "/usr/sbin" -> <<Slash, 118>>

\* str(f) for the entry `name` of directory d
PathStr(d, name) == DirStr(d) \o <<Slash>> \o name

(***************************************************************************)
(* detector.py: the collectors                                             *)
(***************************************************************************)
run_cmd(cmd) ==
    IF faults[cmd] # "ok" THEN <<>> ELSE strip(host.cmds[cmd])

read_file(path, max_bytes) ==
    IF faults[path] # "ok" THEN <<>> ELSE Take(host.files[path], max_bytes)

\* read_file on a file found under a directory
read_entry(e, max_bytes) == Take(e.content, max_bytes)

list_entries(path, max_files) ==
    IF faults[path] # "ok" THEN <<>>
    ELSE SelectSeq(Take(host.dirs[path], max_files), LAMBDA e : e.is_file)

list_files_recursive(path, max_files) ==
    LET es == list_entries(path, max_files)
    IN sortedList([i \in DOMAIN es |-> PathStr(path, es[i].name)])

RECURSIVE parse_users(_, _)
parse_users(lines, acc) ==
    IF lines = <<>> THEN acc
    ELSE LET line == Head(lines)
             parts == split(line, Colon)
         IN IF line = <<>> \/ Head(line) = Hash THEN parse_users(Tail(lines), acc)
            ELSE IF Len(parts) < 3 THEN parse_users(Tail(lines), acc)
            ELSE IF ~IsInt(parts[3]) THEN parse_users(Tail(lines), acc)
            ELSE parse_users(Tail(lines),
                     [users |-> Append(acc.users, [user |-> parts[1], uid |-> int(parts[3])]),
                      uid0_users |-> IF int(parts[3]) = 0
                                     THEN Append(acc.uid0_users, parts[1])
                                     ELSE acc.uid0_users])

collect_users ==
    LET passwd == read_file("/etc/passwd", 200000)
        r == parse_users(splitlines(passwd), [users |-> <<>>, uid0_users |-> <<>>])
    IN [users |-> r.users, uid0_users |-> sortedList(r.uid0_users)]

collect_sudoers ==
    LET sudoers_main == read_file("/etc/sudoers", 200000)
        es == list_entries("/etc/sudoers.d", 500)
        sudoers_d_files == list_files_recursive("/etc/sudoers.d", 500)
    IN [sudoers_main_present |-> sudoers_main # <<>>,
        sudoers_d_files |-> sudoers_d_files,
        sudoers_d_preview |->
            [f \in Range(sudoers_d_files) |->
                LET e == es[CHOOSE i \in DOMAIN es : PathStr("/etc/sudoers.d", es[i].name) = f]
                IN Take(read_entry(e, 50000), 300)]]

collect_cron ==
    [etc_crontab |-> read_file("/etc/crontab", 200000),
     cron_dirs |-> [d \in Range(cron_paths) |-> list_files_recursive(d, 500)],
     root_crontab |-> run_cmd("sudo crontab -l"),
     user_crontab |-> run_cmd("crontab -l")]

collect_systemd ==
    [enabled_services |-> run_cmd("systemctl list-unit-files"),
     system_dirs |-> [d \in Range(system_dirs) |->
                         list_files_recursive(d, IF d = "/etc/systemd/system" THEN 2000 ELSE 4000)]]

collect_ssh_keys ==
    [authorized_keys |-> [p \in Range(key_paths) |-> read_file(p, 50000)]]

RECURSIVE find_all(_)
find_all(dirs) ==
    IF dirs = <<>> THEN <<>>
    ELSE LET out == run_cmd(FindCmd(Head(dirs)))
         IN (IF out # <<>> THEN splitlines(out) ELSE <<>>) \o find_all(Tail(dirs))

collect_suid_limited == [suid_files |-> sorted(Range(find_all(suid_dirs)))]

collect_current_state ==
    [generated_at |-> host.now,
     users |-> collect_users.users,
     uid0_users |-> collect_users.uid0_users,
     sudoers_main_present |-> collect_sudoers.sudoers_main_present,
     sudoers_d_files |-> collect_sudoers.sudoers_d_files,
     sudoers_d_preview |-> collect_sudoers.sudoers_d_preview,
     etc_crontab |-> collect_cron.etc_crontab,
     cron_dirs |-> collect_cron.cron_dirs,
     root_crontab |-> collect_cron.root_crontab,
     user_crontab |-> collect_cron.user_crontab,
     enabled_services |-> collect_systemd.enabled_services,
     system_dirs |-> collect_systemd.system_dirs,
     authorized_keys |-> collect_ssh_keys.authorized_keys,
     suid_files |-> collect_suid_limited.suid_files]

(***************************************************************************)
(* detector.py: main()                                                     *)
(***************************************************************************)
\* The [:10] / len(...) > 10 of the truncated alerts
TruncLimit == 10

\* f"[{sev}] {msg}: {items}{' ...' if ellipsis else ''}"
Alert(sev, msg, dir, items, ellipsis) ==
    [sev |-> sev, msg |-> msg, dir |-> dir, items |-> items, ellipsis |-> ellipsis]

\* A line of the text report that is no alert
TextLine(msg) == Alert("", msg, "", <<>>, FALSE)

OkLine == Alert("OK", "No suspicious changes detected compared to baseline.", "", <<>>, FALSE)

full_alert(sev, msg, dir, items) == Alert(sev, msg, dir, items, FALSE)

truncated_alert_no_marker(sev, msg, items) ==
    Alert(sev, msg, "", Take(items, TruncLimit), FALSE)

truncated_alert(sev, msg, items) ==
    Alert(sev, msg, "", Take(items, TruncLimit), Len(items) > TruncLimit)

NoDiff ==
    [uid0_added |-> <<>>, suid_added |-> <<>>, suid_removed |-> <<>>,
     sudoers_d_added |-> <<>>, sudoers_d_removed |-> <<>>,
     enabled_services_added |-> <<>>, enabled_services_removed |-> <<>>]

NoLocal == [added |-> <<>>, removed |-> <<>>]

DetectorIdle ==
    /\ pcD = "start" /\ baseline = [none |-> TRUE] /\ current = [none |-> TRUE]
    /\ alerts = <<>> /\ diff = NoDiff /\ cronIdx = 0 /\ cronLocal = NoLocal
    /\ jsonReport = [written |-> FALSE] /\ txtReport = [written |-> FALSE]
    /\ stdout = <<>> /\ exitCode = -1

\* The two scripts are command-line programs run one after the other: a run starts
\* only while the other script is not in the middle of its own run.
BuilderVars == <<pcB, bl, bIdx, suid_files>>
DirectVars == <<args, ret>>
World == <<host, faults>>

\* load_baseline() that goes on with an empty baseline when the file is missing
D_LoadBaselineMissing_goes_on ==
    /\ pcD = "start" /\ pcB \in {"start", "done", "aborted"}
    /\ ~baselineFile.exists
    /\ pcD' = "collect"
    /\ UNCHANGED <<World, baselineFile, BuilderVars, DirectVars, baseline, current,
                   alerts, diff, cronIdx, cronLocal, jsonReport, txtReport, stdout,
                   exitCode>>

\* load_baseline(): the file is missing -> two lines on stdout, SystemExit(1)
D_LoadBaselineMissing ==
    /\ pcD = "start" /\ pcB \in {"start", "done", "aborted"}
    /\ ~baselineFile.exists
    /\ stdout' = <<TextLine("[ERROR] Baseline not found"),
                   TextLine("Run: sudo python3 analyzer/baseline_collector.py first")>>
    /\ exitCode' = 1
    /\ pcD' = "exit"
    /\ UNCHANGED <<World, baselineFile, BuilderVars, DirectVars, baseline, current,
                   alerts, diff, cronIdx, cronLocal, jsonReport, txtReport>>

\* load_baseline(): json.load of the file
D_LoadBaseline ==
    /\ pcD = "start" /\ pcB \in {"start", "done", "aborted"}
    /\ baselineFile.exists
    /\ baseline' = baselineFile.doc
    /\ pcD' = "collect"
    /\ UNCHANGED <<World, baselineFile, BuilderVars, DirectVars, current, alerts, diff,
                   cronIdx, cronLocal, jsonReport, txtReport, stdout, exitCode>>

D_Collect ==
    /\ pcD = "collect"
    /\ current' = collect_current_state
    /\ pcD' = "uid0"
    /\ UNCHANGED <<World, baselineFile, BuilderVars, DirectVars, baseline, alerts, diff,
                   cronIdx, cronLocal, jsonReport, txtReport, stdout, exitCode>>

\* 1) UID 0 users
D_RuleUid0 ==
    /\ pcD = "uid0"
    /\ LET d == diff_lists(PyList(Get(baseline, "uid0_users", <<>>)),
                           PyList(Get(current, "uid0_users", <<>>)))
       IN /\ diff' = [diff EXCEPT !.uid0_added = d.added]
          /\ alerts' = alerts \o
                (IF d.added # <<>>
                 THEN <<full_alert("ALERT", "New UID=0 user(s) detected", "", d.added)>>
                 ELSE <<>>)
    /\ pcD' = "suid"
    /\ UNCHANGED <<World, baselineFile, BuilderVars, DirectVars, baseline, current,
                   cronIdx, cronLocal, jsonReport, txtReport, stdout, exitCode>>

\* 2) SUID files changed
D_RuleSuid ==
    /\ pcD = "suid"
    /\ LET d == diff_lists(PyList(Get(baseline, "suid_files", <<>>)),
                           PyList(Get(current, "suid_files", <<>>)))
       IN /\ diff' = [diff EXCEPT !.suid_added = d.added, !.suid_removed = d.removed]
          /\ alerts' = alerts \o
                (IF d.added # <<>>
                 THEN <<truncated_alert("ALERT", "New SUID binaries found", d.added)>>
                 ELSE <<>>) \o
                (IF d.removed # <<>>
                 THEN <<truncated_alert("INFO", "SUID binaries removed", d.removed)>>
                 ELSE <<>>)
    /\ pcD' = "sudoers_d"
    /\ UNCHANGED <<World, baselineFile, BuilderVars, DirectVars, baseline, current,
                   cronIdx, cronLocal, jsonReport, txtReport, stdout, exitCode>>

\* 3) New sudoers.d files
D_RuleSudoersD ==
    /\ pcD = "sudoers_d"
    /\ LET d == diff_lists(PyList(Get(baseline, "sudoers_d_files", <<>>)),
                           PyList(Get(current, "sudoers_d_files", <<>>)))
       IN /\ diff' = [diff EXCEPT !.sudoers_d_added = d.added,
                                  !.sudoers_d_removed = d.removed]
          /\ alerts' = alerts \o
                (IF d.added # <<>>
                 THEN <<full_alert("ALERT", "New /etc/sudoers.d file(s)", "", d.added)>>
                 ELSE <<>>) \o
                (IF d.removed # <<>>
                 THEN <<full_alert("INFO", "Removed /etc/sudoers.d file(s)", "", d.removed)>>
                 ELSE <<>>)
    /\ pcD' = "services"
    /\ UNCHANGED <<World, baselineFile, BuilderVars, DirectVars, baseline, current,
                   cronIdx, cronLocal, jsonReport, txtReport, stdout, exitCode>>

\* 4) Enabled services changed: raw text lines, compared as sets
D_RuleServices ==
    /\ pcD = "services"
    /\ LET base_enabled == Range(splitlines(Get(baseline, "enabled_services", <<>>)))
           curr_enabled == Range(splitlines(Get(current, "enabled_services", <<>>)))
           added_services == sorted(curr_enabled \ base_enabled)
           removed_services == sorted(base_enabled \ curr_enabled)
       IN /\ diff' = [diff EXCEPT !.enabled_services_added = added_services,
                                  !.enabled_services_removed = removed_services]
          /\ alerts' = alerts \o
                (IF added_services # <<>>
                 THEN <<truncated_alert("ALERT",
                            "New enabled service entries detected (possible persistence)",
                            added_services)>>
                 ELSE <<>>) \o
                (IF removed_services # <<>>
                 THEN <<truncated_alert("INFO", "Enabled service entries removed",
                            removed_services)>>
                 ELSE <<>>)
    /\ pcD' = "cron"
    /\ cronIdx' = 1
    /\ UNCHANGED <<World, baselineFile, BuilderVars, DirectVars, baseline, current,
                   cronLocal, jsonReport, txtReport, stdout, exitCode>>

\* 5) Cron directory changes: one iteration of the loop over the five directories
D_RuleCron ==
    /\ pcD = "cron"
    /\ LET cron_dir == cron_paths[cronIdx]
           base == Get(Get(baseline, "cron_dirs", <<>>), cron_dir, <<>>)
           curr == Get(Get(current, "cron_dirs", <<>>), cron_dir, <<>>)
           d == diff_lists(PyList(base), PyList(curr))
       IN /\ cronLocal' = [added |-> d.added, removed |-> d.removed]
          /\ alerts' = alerts \o
                (IF d.added # <<>>
                 THEN <<full_alert("ALERT", "New cron file(s) in", cron_dir, d.added)>>
                 ELSE <<>>) \o
                (IF d.removed # <<>>
                 THEN <<full_alert("INFO", "Removed cron file(s) in", cron_dir, d.removed)>>
                 ELSE <<>>)
    /\ IF cronIdx < Len(cron_paths)
       THEN cronIdx' = cronIdx + 1 /\ pcD' = "cron"
       ELSE cronIdx' = cronIdx /\ pcD' = "write_json"
    /\ UNCHANGED <<World, baselineFile, BuilderVars, DirectVars, baseline, current,
                   diff, jsonReport, txtReport, stdout, exitCode>>

\* report_obj that stores the lists as the alerts show them
report_obj_as_shown ==
    [generated_at |-> current.generated_at,
     alerts |-> alerts,
     diff |-> [uid0_added |-> diff.uid0_added,
               suid_added |-> Take(diff.suid_added, TruncLimit),
               suid_removed |-> Take(diff.suid_removed, TruncLimit),
               sudoers_d_added |-> diff.sudoers_d_added,
               sudoers_d_removed |-> diff.sudoers_d_removed,
               enabled_services_added |-> Take(diff.enabled_services_added, TruncLimit),
               enabled_services_removed |-> Take(diff.enabled_services_removed, TruncLimit)]]

report_obj ==
    [generated_at |-> current.generated_at,
     alerts |-> alerts,
     diff |-> [uid0_added |-> diff.uid0_added,
               suid_added |-> diff.suid_added,
               suid_removed |-> diff.suid_removed,
               sudoers_d_added |-> diff.sudoers_d_added,
               sudoers_d_removed |-> diff.sudoers_d_removed,
               enabled_services_added |-> diff.enabled_services_added,
               enabled_services_removed |-> diff.enabled_services_removed]]

\* json.dump(report_obj, f)
D_WriteJson ==
    /\ pcD = "write_json"
    /\ jsonReport' = [written |-> TRUE, obj |-> report_obj]
    /\ pcD' = "write_text"
    /\ UNCHANGED <<World, baselineFile, BuilderVars, DirectVars, baseline, current,
                   alerts, diff, cronIdx, cronLocal, txtReport, stdout, exitCode>>

text_lines ==
    <<TextLine("Linux Persistence & Privilege Escalation Detection Report"),
      TextLine("=========================================================="),
      TextLine("Generated: <generated_at>"),
      TextLine(""),
      TextLine("Alerts:")>>
    \o (IF alerts # <<>> THEN alerts ELSE <<OkLine>>)
    \o <<TextLine(""), TextLine("Report files:"),
         TextLine("- detection_report.txt"), TextLine("- detection_report.json")>>

\* txt_report.write_text(...); print(...)
D_WriteText ==
    /\ pcD = "write_text"
    /\ txtReport' = [written |-> TRUE, lines |-> text_lines]
    /\ stdout' = text_lines
    /\ exitCode' = 0
    /\ pcD' = "done"
    /\ UNCHANGED <<World, baselineFile, BuilderVars, DirectVars, baseline, current,
                   alerts, diff, cronIdx, cronLocal, jsonReport>>

Detector ==
    \/ D_LoadBaselineMissing
    \/ D_LoadBaseline
    \/ D_Collect
    \/ D_RuleUid0
    \/ D_RuleSuid
    \/ D_RuleSudoersD
    \/ D_RuleServices
    \/ D_RuleCron
    \/ D_WriteJson
    \/ D_WriteText

(***************************************************************************)
(* baseline_collector.py (a script: its statements run top to bottom)      *)
(***************************************************************************)
DetectorVars == <<pcD, baseline, current, alerts, diff, cronIdx, cronLocal,
                  jsonReport, txtReport, stdout, exitCode>>

\* The dict `baseline` as created at the top of the script
NewBaseline ==
    [generated_at |-> host.now, users |-> <<>>, uid_0_accounts |-> <<>>,
     sudoers |-> <<>>, cron_jobs |-> <<>>, suid_files |-> <<>>]

BuilderIdle == pcB = "start" /\ bl = [none |-> TRUE] /\ bIdx = 0 /\ suid_files = <<>>

\* The lines `for line in f` yields, each then stripped
passwd_lines == LET ls == splitlines(host.files["/etc/passwd"])
                IN [i \in DOMAIN ls |-> strip(ls[i])]

\* with open("/etc/passwd", "r") as f: no handler around it
B_OpenPasswd ==
    /\ pcB = "start" /\ pcD \in {"start", "exit", "done"}
    /\ bl' = NewBaseline
    /\ IF faults["/etc/passwd"] # "ok"
       THEN pcB' = "aborted" /\ bIdx' = bIdx
       ELSE IF passwd_lines = <<>>
       THEN pcB' = "sudoers" /\ bIdx' = bIdx
       ELSE pcB' = "users" /\ bIdx' = 1
    /\ UNCHANGED <<World, baselineFile, suid_files, DetectorVars, DirectVars>>

\* One iteration of the loop over the lines of /etc/passwd
B_UserLine ==
    /\ pcB = "users"
    /\ LET parts == split(passwd_lines[bIdx], Colon)
       IN IF Len(parts) < 3 \/ ~IsInt(parts[3])
          THEN \* IndexError on parts[2] / ValueError in int(): uncaught
               pcB' = "aborted" /\ bl' = bl /\ bIdx' = bIdx
          ELSE LET user == [username |-> parts[1], uid |-> int(parts[3]),
                            shell |-> parts[Len(parts)]]
               IN /\ bl' = [bl EXCEPT
                              !.users = Append(@, user),
                              !.uid_0_accounts = IF user.uid = 0
                                                 THEN Append(@, user.username) ELSE @]
                  /\ IF bIdx < Len(passwd_lines)
                     THEN bIdx' = bIdx + 1 /\ pcB' = "users"
                     ELSE bIdx' = bIdx /\ pcB' = "sudoers"
    /\ UNCHANGED <<World, baselineFile, suid_files, DetectorVars, DirectVars>>

\* grep -v '^#' /etc/sudoers, any Exception -> []
B_Sudoers ==
    /\ pcB = "sudoers"
    /\ bl' = [bl EXCEPT !.sudoers =
                 IF faults["/etc/sudoers"] # "ok" THEN <<>>
                 ELSE SelectSeq(splitlines(host.files["/etc/sudoers"]),
                                LAMBDA l : l = <<>> \/ Head(l) # Hash)]
    /\ pcB' = "cron" /\ bIdx' = 1
    /\ UNCHANGED <<World, baselineFile, suid_files, DetectorVars, DirectVars>>

\* stdout of `ls path`: the names in the directory, sorted, one per line
ls_output(path) ==
    LET es == host.dirs[path]
        names == sortedList([i \in DOMAIN es |-> es[i].name])
    IN IF names = <<>> THEN <<>> ELSE join(names) \o <<NL>>

\* One iteration of the loop over cron_paths; any Exception -> continue
B_Cron ==
    /\ pcB = "cron"
    /\ LET path == cron_paths[bIdx]
           files == splitlines(ls_output(path))
       IN bl' = IF faults[path] # "ok" THEN bl
                ELSE [bl EXCEPT !.cron_jobs =
                         @ \o [i \in DOMAIN files |-> PathStr(path, files[i])]]
    /\ IF bIdx < Len(cron_paths)
       THEN bIdx' = bIdx + 1 /\ pcB' = "cron"
       ELSE bIdx' = 1 /\ pcB' = "suid"
    /\ UNCHANGED <<World, baselineFile, suid_files, DetectorVars, DirectVars>>

\* One iteration of the loop over suid_dirs; only TimeoutExpired is handled
B_Suid ==
    /\ pcB = "suid"
    /\ LET d == suid_dirs[bIdx]
           f == faults[FindCmd(d)]
       IN IF f = "error"
          THEN \* CalledProcessError / FileNotFoundError: uncaught
               pcB' = "aborted" /\ suid_files' = suid_files /\ bIdx' = bIdx
          ELSE /\ suid_files' = IF f = "timeout" THEN suid_files
                                ELSE suid_files \o splitlines(host.cmds[FindCmd(d)])
               /\ IF bIdx < Len(suid_dirs)
                  THEN bIdx' = bIdx + 1 /\ pcB' = "suid"
                  ELSE bIdx' = bIdx /\ pcB' = "save"
    /\ UNCHANGED <<World, baselineFile, bl, DetectorVars, DirectVars>>

\* baseline["suid_files"] = sorted(suid_files); json.dump(baseline, f)
B_Save ==
    /\ pcB = "save"
    /\ bl' = [bl EXCEPT !.suid_files = sortedList(suid_files)]
    /\ baselineFile' = [exists |-> TRUE, doc |-> bl']
    /\ pcB' = "done"
    /\ UNCHANGED <<World, bIdx, suid_files, DetectorVars, DirectVars>>

Builder ==
    \/ B_OpenPasswd
    \/ B_UserLine
    \/ B_Sudoers
    \/ B_Cron
    \/ B_Suid
    \/ B_Save

(***************************************************************************)
(* Direct calls of diff_lists                                              *)
(***************************************************************************)
CallDiffLists ==
    /\ ret.calls = 0
    /\ ret' = [calls |-> 1,
               fwd |-> diff_lists(args.old_list, args.new_list),
               bwd |-> NoLocal]
    /\ UNCHANGED <<World, baselineFile, BuilderVars, DetectorVars, args>>

\* The same call with baseline and current swapped
CallDiffListsSwapped ==
    /\ ret.calls = 1
    /\ ret' = [ret EXCEPT !.calls = 2,
                          !.bwd = diff_lists(args.new_list, args.old_list)]
    /\ UNCHANGED <<World, baselineFile, BuilderVars, DetectorVars, args>>

NoCall == args = [old_list |-> PyNone, new_list |-> PyNone]
          /\ ret = [calls |-> 0, fwd |-> NoLocal, bwd |-> NoLocal]

(***************************************************************************)
(* Inputs                                                                  *)
(***************************************************************************)
\* The k-th name; the order of the names is not the order of k
Elem(k) == <<97 + ((k * 2) % 5), 97 + k>>

Names(n) == [k \in 1..n |-> Elem(k)]

\* What one category holds in the baseline and on the host
Change(kind) ==
    CASE kind = "same" -> [base |-> Names(1), curr |-> Names(1)]
      [] kind = "added" -> [base |-> Names(1), curr |-> Names(2)]
      [] kind = "removed" -> [base |-> Names(2), curr |-> Names(1)]
      [] kind = "both" -> [base |-> Names(1), curr |-> Tail(Names(2))]
      [] kind = "empty" -> [base |-> <<>>, curr |-> <<>>]

Grown(n) == [base |-> <<>>, curr |-> Names(n)]
Shrunk(n) == [base |-> Names(n), curr |-> <<>>]

Kinds == {"same", "added", "removed", "both"}

Quiet == [uid0 |-> Change("same"), suid |-> Change("same"),
          sudoers_d |-> Change("same"), services |-> Change("same"),
          cron |-> [d \in Range(cron_paths) |-> Change("same")]]

\* Text with one line per element
Text(lines) == IF lines = <<>> THEN <<>> ELSE join(lines) \o <<NL>>

PasswdLine(name, uid) == name \o <<Colon, 120, Colon>> \o uid

\* /etc/passwd with the given root-equivalent accounts and one ordinary user
PasswdFor(names) ==
    [i \in DOMAIN names |-> PasswdLine(names[i], <<Digit0>>)]
        \o <<PasswdLine(<<117>>, <<Digit0 + 1, Digit0, Digit0, Digit0>>)>>

Entries(names) == [i \in DOMAIN names |-> [name |-> names[i], is_file |-> TRUE,
                                           content |-> names[i]]]

MkHost(passwd, sc) ==
    [now |-> 1,
     files |-> [f \in Files |->
                   IF f = "/etc/passwd" THEN Text(passwd)
                   ELSE IF f = "/etc/sudoers" THEN Text(<<<<Hash, 99>>, <<114>>>>)
                   ELSE <<>>],
     dirs |-> [d \in Dirs |->
                  IF d = "/etc/sudoers.d" THEN Entries(sc.sudoers_d.curr)
                  ELSE IF d \in Range(cron_paths) THEN Entries(sc.cron[d].curr)
                  ELSE <<[name |-> <<119>>, is_file |-> FALSE, content |-> <<>>],
                         [name |-> <<119, Slash, 120>>, is_file |-> TRUE,
                          content |-> <<>>]>>],
     cmds |-> [c \in Cmds |->
                  IF c = FindCmd("/bin")
                  THEN Text([i \in DOMAIN sc.suid.curr |-> PathStr("/bin", sc.suid.curr[i])])
                  ELSE IF c = FindCmd("/usr/bin")
                  THEN Text(<<PathStr("/usr/bin", <<115>>)>>)
                  ELSE IF c = "systemctl list-unit-files" THEN Text(sc.services.curr)
                  ELSE <<>>]]

\* A baseline document with the keys detector.py reads
MkDoc(sc) ==
    [generated_at |-> 0,
     uid0_users |-> sc.uid0.base,
     suid_files |-> [i \in DOMAIN sc.suid.base |-> PathStr("/bin", sc.suid.base[i])]
                       \o <<PathStr("/usr/bin", <<115>>)>>,
     sudoers_d_files |-> [i \in DOMAIN sc.sudoers_d.base |->
                             PathStr("/etc/sudoers.d", sc.sudoers_d.base[i])],
     enabled_services |-> join(sc.services.base),
     cron_dirs |-> [d \in Range(cron_paths) |->
                       [i \in DOMAIN sc.cron[d].base |-> PathStr(d, sc.cron[d].base[i])]]]

NoFaults == [s \in Sites |-> "ok"]

\* The changes of the four single categories, in every combination, with at most
\* one cron directory changed, or all of them
ComboScenarios ==
    {[uid0 |-> Change(k1), suid |-> Change(k2), sudoers_d |-> Change(k3),
      services |-> Change(k4),
      cron |-> [d \in Range(cron_paths) |->
                   IF c[1] = "all" \/ d = c[1] THEN Change(c[2]) ELSE Change("same")]] :
        k1 \in Kinds, k2 \in Kinds, k3 \in Kinds, k4 \in Kinds,
        c \in (Range(cron_paths) \cup {"all"}) \X Kinds}

\* One category grows or shrinks by a list around the truncation limit
LongCats == {"uid0", "suid", "sudoers_d", "services", "/etc/cron.d", "/etc/cron.weekly"}

LongScenarios ==
    {[uid0 |-> IF cat = "uid0" THEN ch ELSE Change("same"),
      suid |-> IF cat = "suid" THEN ch ELSE Change("empty"),
      sudoers_d |-> IF cat = "sudoers_d" THEN ch ELSE Change("same"),
      services |-> IF cat = "services" THEN ch ELSE Change("empty"),
      cron |-> [d \in Range(cron_paths) |-> IF cat = d THEN ch ELSE Change("empty")]] :
        cat \in LongCats,
        ch \in {Grown(n) : n \in (TruncLimit - 1)..(TruncLimit + MaxExtra)}
               \cup {Shrunk(n) : n \in (TruncLimit - 1)..(TruncLimit + MaxExtra)}}

ClassifyScenarios == ComboScenarios \cup LongScenarios

\* A baseline document that lacks some of the keys
Without(doc, keys) == [k \in DOMAIN doc \ keys |-> doc[k]]

ClassifyInit ==
    /\ \E sc \in ClassifyScenarios :
          /\ host = MkHost(PasswdFor(sc.uid0.curr), sc)
          /\ \/ baselineFile = [exists |-> TRUE, doc |-> MkDoc(sc)]
             \/ /\ sc \in LongScenarios
                /\ baselineFile = [exists |-> FALSE]
             \/ /\ sc \in LongScenarios
                /\ baselineFile = [exists |-> TRUE,
                                   doc |-> Without(MkDoc(sc), {"cron_dirs", "uid0_users"})]
    /\ faults = NoFaults
    /\ BuilderIdle /\ DetectorIdle /\ NoCall

SpecClassify == ClassifyInit /\ [][Detector]_vars

\* The lists handed to diff_lists directly: None, or strings with repetitions
DiffElems == {<<98>>, <<97, 99>>, <<97>>}

DiffInputs == {PyNone} \cup {PyList(l) : l \in SeqsUpTo(DiffElems, MaxListLen)}

DiffInit ==
    /\ args \in [old_list : DiffInputs, new_list : DiffInputs]
    /\ ret = [calls |-> 0, fwd |-> NoLocal, bwd |-> NoLocal]
    /\ host = MkHost(PasswdFor(<<>>), Quiet)
    /\ faults = NoFaults
    /\ baselineFile = [exists |-> FALSE]
    /\ BuilderIdle /\ DetectorIdle

DiffNext == CallDiffLists \/ CallDiffListsSwapped

SpecDiff == DiffInit /\ [][DiffNext]_vars

\* Lines of /etc/passwd: well-formed, too few fields, non-numeric uid, empty, comment
SamplePasswdLines ==
    {PasswdLine(<<114>>, <<Digit0>>) \o <<Colon, 47, 98>>,
     PasswdLine(<<98>>, <<Digit0 + 1, Digit0>>),
     PasswdLine(<<116>>, <<Digit0>>),
     <<100, Colon, 120>>,
     PasswdLine(<<101>>, <<97, 98>>),
     <<>>,
     <<Hash>> \o PasswdLine(<<99>>, <<Digit0>>)}

\* The failing calls of a run: at most n of them
RECURSIVE FaultSets(_)
FaultSets(n) ==
    IF n = 0 THEN {{}}
    ELSE LET prev == FaultSets(n - 1)
             one == (Sites \X {"error"}) \cup (Cmds \X {"timeout"})
         IN prev \cup UNION {{F \cup {x} : x \in {y \in one : \A z \in F : z[1] # y[1]}} :
                                F \in prev}

FaultsOf(F) ==
    [s \in Sites |-> IF \E x \in F : x[1] = s
                     THEN (CHOOSE x \in F : x[1] = s)[2] ELSE "ok"]

\* A host with one element in every category
Typical == Quiet

Init ==
    /\ \/ /\ \E p \in SeqsUpTo(SamplePasswdLines, MaxLines) : host = MkHost(p, Typical)
          /\ faults = NoFaults
       \/ /\ host = MkHost(PasswdFor(Names(1)), Typical)
          /\ \E F \in FaultSets(MaxFaults) : faults = FaultsOf(F)
    /\ baselineFile = [exists |-> FALSE]
    /\ BuilderIdle /\ DetectorIdle /\ NoCall

Next == Builder \/ Detector

Spec == Init /\ [][Next]_vars

(***************************************************************************)
(* What the claims speak of                                                *)
(***************************************************************************)
\* The diffed categories, in the order of the rules
Cats == <<"uid0_users", "suid_files", "sudoers_d_files", "enabled_services">> \o cron_paths

\* The elements of category c in a snapshot
CatSet(doc, c) ==
    IF c = "enabled_services" THEN Range(splitlines(Get(doc, c, <<>>)))
    ELSE IF c \in Range(cron_paths) THEN Range(Get(Get(doc, "cron_dirs", <<>>), c, <<>>))
    ELSE Range(Get(doc, c, <<>>))

AddedSet(c) == CatSet(current, c) \ CatSet(baseline, c)
RemovedSet(c) == CatSet(baseline, c) \ CatSet(current, c)

\* The category an alert is about
CatOf(a) ==
    IF a.msg = "New UID=0 user(s) detected" THEN "uid0_users"
    ELSE IF a.msg \in {"New SUID binaries found", "SUID binaries removed"} THEN "suid_files"
    ELSE IF a.msg \in {"New /etc/sudoers.d file(s)", "Removed /etc/sudoers.d file(s)"}
    THEN "sudoers_d_files"
    ELSE IF a.msg \in {"New enabled service entries detected (possible persistence)",
                       "Enabled service entries removed"} THEN "enabled_services"
    ELSE a.dir

\* The set an alert reports on
SetOf(a) == IF a.sev = "ALERT" THEN AddedSet(CatOf(a)) ELSE RemovedSet(CatOf(a))

Ascending(l) == \A i \in 1..(Len(l) - 1) : StrLess(l[i], l[i + 1])

\* l lists exactly the elements of S, each once, in ascending order
ListsAll(l, S) == Range(l) = S /\ Ascending(l)

\* l lists the n smallest elements of S, each once, in ascending order
ListsFirst(l, S, n) ==
    /\ Len(l) = n /\ Ascending(l) /\ Range(l) \subseteq S
    /\ \A x \in S \ Range(l) : \A i \in DOMAIN l : StrLess(l[i], x)

Classified == pcD \in {"write_json", "write_text", "done"}

\* The alerts the rule table asks for, as <<severity, category>>, in order
RECURSIVE Expected(_)
Expected(cats) ==
    IF cats = <<>> THEN <<>>
    ELSE (IF AddedSet(Head(cats)) # {} THEN <<<<"ALERT", Head(cats)>>>> ELSE <<>>)
         \o (IF Head(cats) # "uid0_users" /\ RemovedSet(Head(cats)) # {}
             THEN <<<<"INFO", Head(cats)>>>> ELSE <<>>)
         \o Expected(Tail(cats))

Unchanged == \A i \in DOMAIN Cats : AddedSet(Cats[i]) = {} /\ RemovedSet(Cats[i]) = {}

(***************************************************************************)
(* C1: when no category has an added or a removed element, the alerts of   *)
(* the report object are exactly one OK alert, and no ALERT or INFO.       *)
(* The code leaves the list empty; only the text rendering gets the line.  *)
(***************************************************************************)
C1_ReportHasOneOk ==
    (jsonReport.written /\ Unchanged) =>
        /\ Len(jsonReport.obj.alerts) = 1
        /\ jsonReport.obj.alerts[1].sev = "OK"

(***************************************************************************)
(* C2: after the rules ran, the alerts are exactly: per category, in the   *)
(* order uid0, SUID, sudoers.d, services, the five cron directories, an    *)
(* ALERT iff its added set is non-empty, then an INFO iff its removed set  *)
(* is non-empty; no INFO for a removed UID-0 account.                      *)
(***************************************************************************)
C2_RulesIndependent ==
    Classified =>
        [i \in DOMAIN alerts |-> <<alerts[i].sev, CatOf(alerts[i])>>] = Expected(Cats)

C2_Witness ==
    /\ pcD = "done"
    /\ RemovedSet("uid0_users") # {}
    /\ AddedSet("suid_files") # {} /\ RemovedSet("suid_files") = {}
    /\ AddedSet("sudoers_d_files") = {} /\ RemovedSet("sudoers_d_files") # {}
    /\ AddedSet("/etc/cron.weekly") # {} /\ RemovedSet("/etc/cron.weekly") # {}
    /\ Len(alerts) = 4

(***************************************************************************)
(* C3, as stated: the full list behind every alert of the report, those of *)
(* the cron directories included, is one of the lists of the report's diff *)
(* field.                                                                  *)
(***************************************************************************)
C3_DiffHoldsEveryList ==
    jsonReport.written =>
        \A i \in DOMAIN jsonReport.obj.alerts :
            \E k \in DOMAIN jsonReport.obj.diff :
                ListsAll(jsonReport.obj.diff[k], SetOf(jsonReport.obj.alerts[i]))

(***************************************************************************)
(* C3, amended: the full list behind every UID-0, SUID, sudoers.d and      *)
(* service alert is in the report's diff field under that category's key,  *)
(* however the alert text is truncated; the diff field has no cron entry,  *)
(* and a cron alert itself shows its whole list.                           *)
(***************************************************************************)
DiffKey(a) ==
    CASE CatOf(a) = "uid0_users" -> "uid0_added"
      [] CatOf(a) = "suid_files" ->
            IF a.sev = "ALERT" THEN "suid_added" ELSE "suid_removed"
      [] CatOf(a) = "sudoers_d_files" ->
            IF a.sev = "ALERT" THEN "sudoers_d_added" ELSE "sudoers_d_removed"
      [] CatOf(a) = "enabled_services" ->
            IF a.sev = "ALERT" THEN "enabled_services_added" ELSE "enabled_services_removed"

C3_FullListsKept ==
    jsonReport.written =>
        /\ DOMAIN jsonReport.obj.diff =
              {"uid0_added", "suid_added", "suid_removed", "sudoers_d_added",
               "sudoers_d_removed", "enabled_services_added", "enabled_services_removed"}
        /\ \A i \in DOMAIN jsonReport.obj.alerts :
              LET a == jsonReport.obj.alerts[i]
              IN IF CatOf(a) \in Range(cron_paths)
                 THEN ListsAll(a.items, SetOf(a)) /\ ~a.ellipsis
                 ELSE ListsAll(jsonReport.obj.diff[DiffKey(a)], SetOf(a))

C3_Witness ==
    /\ jsonReport.written
    /\ \E i \in DOMAIN jsonReport.obj.alerts :
          LET a == jsonReport.obj.alerts[i]
          IN /\ a.sev = "INFO" /\ CatOf(a) = "suid_files" /\ a.ellipsis
             /\ Len(jsonReport.obj.diff.suid_removed) > Len(a.items)

(***************************************************************************)
(* C4, as stated: in every category, an added list of more than 10 makes   *)
(* the ALERT show exactly the first 10 in sorted order and the ellipsis,   *)
(* and a list of 10 or fewer shows no ellipsis.                            *)
(***************************************************************************)
TruncatedRight(a) ==
    IF Cardinality(SetOf(a)) > TruncLimit
    THEN ListsFirst(a.items, SetOf(a), TruncLimit) /\ a.ellipsis
    ELSE ListsAll(a.items, SetOf(a)) /\ ~a.ellipsis

C4_EveryCategoryTruncated ==
    Classified => \A i \in DOMAIN alerts : alerts[i].sev = "ALERT" => TruncatedRight(alerts[i])

(***************************************************************************)
(* C4, amended: the truncation holds for the SUID-file and enabled-service *)
(* alerts, and the report's diff keeps all their elements; the UID-0,      *)
(* sudoers.d and cron alerts show the whole list and never the ellipsis.   *)
(***************************************************************************)
TruncatedCats == {"suid_files", "enabled_services"}

C4_TruncationPolicy ==
    /\ Classified =>
          \A i \in DOMAIN alerts :
              IF CatOf(alerts[i]) \in TruncatedCats
              THEN TruncatedRight(alerts[i])
              ELSE ListsAll(alerts[i].items, SetOf(alerts[i])) /\ ~alerts[i].ellipsis
    /\ jsonReport.written =>
          /\ ListsAll(jsonReport.obj.diff.suid_added, AddedSet("suid_files"))
          /\ ListsAll(jsonReport.obj.diff.enabled_services_added,
                      AddedSet("enabled_services"))

C4_Witness ==
    /\ jsonReport.written
    /\ Cardinality(AddedSet("enabled_services")) > TruncLimit
    /\ \E i \in DOMAIN alerts :
          /\ alerts[i].sev = "ALERT" /\ CatOf(alerts[i]) = "enabled_services"
          /\ alerts[i].ellipsis /\ Len(alerts[i].items) = TruncLimit
    /\ Len(jsonReport.obj.diff.enabled_services_added) > TruncLimit

(***************************************************************************)
(* C5: a run that finds no baseline file exits with status 1 after the     *)
(* two-line message, having collected nothing and written no report;       *)
(* nothing is collected, classified or written unless a baseline was read. *)
(***************************************************************************)
C5_MissingBaselineIsFatal ==
    /\ pcD = "exit" =>
          /\ exitCode = 1
          /\ stdout = <<TextLine("[ERROR] Baseline not found"),
                        TextLine("Run: sudo python3 analyzer/baseline_collector.py first")>>
          /\ current = [none |-> TRUE] /\ alerts = <<>>
          /\ ~jsonReport.written /\ ~txtReport.written
    /\ (current # [none |-> TRUE] \/ alerts # <<>> \/ jsonReport.written
            \/ txtReport.written \/ pcD \notin {"start", "exit"})
          => baseline # [none |-> TRUE]

C5_Witness == pcD = "exit" /\ exitCode = 1 /\ ~baselineFile.exists /\ ~jsonReport.written

(***************************************************************************)
(* C6: diff_lists(old, new), for lists that may be None, empty or hold     *)
(* repetitions: added lists new - old and removed lists old - new, each    *)
(* without repetition in ascending order; equal inputs give two empty      *)
(* lists.                                                                  *)
(***************************************************************************)
ArgSet(x) == IF x.none THEN {} ELSE Range(x.items)

C6_DiffListsContract ==
    ret.calls >= 1 =>
        /\ ListsAll(ret.fwd.added, ArgSet(args.new_list) \ ArgSet(args.old_list))
        /\ ListsAll(ret.fwd.removed, ArgSet(args.old_list) \ ArgSet(args.new_list))
        /\ args.old_list = args.new_list => ret.fwd = NoLocal

C6_Witness ==
    /\ ret.calls >= 1
    /\ args.old_list.none
    /\ Len(args.new_list.items) > Cardinality(Range(args.new_list.items))
    /\ Len(ret.fwd.added) = 2

(***************************************************************************)
(* C7: swapping the two arguments of diff_lists swaps its two results.     *)
(***************************************************************************)
C7_SwapSwapsResults ==
    ret.calls = 2 =>
        /\ ret.fwd.added = ret.bwd.removed
        /\ ret.fwd.removed = ret.bwd.added

C7_Witness ==
    ret.calls = 2 /\ ret.fwd.added # <<>> /\ ret.fwd.removed # <<>>

(***************************************************************************)
(* C8: a failing external call never aborts a run: the baseline build goes *)
(* on through its remaining steps.  The build has no handler around        *)
(* open("/etc/passwd") and handles only TimeoutExpired around find.        *)
(***************************************************************************)
C8_FailuresRecovered ==
    (\E s \in Sites : faults[s] # "ok") => pcB # "aborted"

(***************************************************************************)
(* C9: for any lines of /etc/passwd the build and the detection complete,  *)
(* accounts are exactly the well-formed lines (three fields or more, a     *)
(* numeric uid) in input order, and the uid-0 accounts are exactly the     *)
(* names of those with uid 0.  The build raises on a malformed line.       *)
(***************************************************************************)
WellFormed(line) ==
    LET parts == split(line, Colon) IN Len(parts) >= 3 /\ IsInt(parts[3])

WellFormedAccounts ==
    LET wf == SelectSeq(splitlines(host.files["/etc/passwd"]), WellFormed)
    IN [i \in DOMAIN wf |-> <<split(wf[i], Colon)[1], int(split(wf[i], Colon)[3])>>]

RootNames == {WellFormedAccounts[i][1] :
                 i \in {j \in DOMAIN WellFormedAccounts : WellFormedAccounts[j][2] = 0}}

C9_MalformedLinesSkipped ==
    faults = NoFaults =>
        /\ pcB # "aborted"
        /\ pcB \in {"sudoers", "cron", "suid", "save", "done"} =>
              /\ [i \in DOMAIN bl.users |-> <<bl.users[i].username, bl.users[i].uid>>]
                    = WellFormedAccounts
              /\ Range(bl.uid_0_accounts) = RootNames
        /\ current # [none |-> TRUE] =>
              /\ [i \in DOMAIN current.users |->
                     <<current.users[i].user, current.users[i].uid>>] = WellFormedAccounts
              /\ Range(current.uid0_users) = RootNames

(***************************************************************************)
(* C10: detection against a freshly built baseline, on a host that did not *)
(* change and with no failing call, raises no ALERT and no INFO and finds  *)
(* every added and removed list empty.  The build writes uid_0_accounts    *)
(* and cron_jobs where the detection reads uid0_users and cron_dirs, and   *)
(* writes no sudoers_d_files and no enabled_services.                      *)
(***************************************************************************)
C10_FreshBaselineIsQuiet ==
    (pcD = "done" /\ pcB = "done" /\ baseline = baselineFile.doc /\ faults = NoFaults) =>
        /\ alerts = <<>>
        /\ jsonReport.obj.diff = NoDiff
        /\ Unchanged

====
